---- MODULE Spec2Model ----
(***************************************************************************)
(* Plagiarism detector backend: the similarity service                     *)
(* (app/services/similarity.py), the detection service                     *)
(* (app/services/detection.py) and the embedding service                   *)
(* (app/services/embeddings.py, app/config.py).                            *)
(*                                                                         *)
(* One behaviour is one call of one entry point: Init draws the entry      *)
(* point and its arguments, the actions are the steps of the call.         *)
(*   Spec            calls of the similarity service and analyze_texts     *)
(*   SpecDetection   analyze_texts, detect_potential_plagiarism and        *)
(*                   POST /compare (api/analyze.py)                        *)
(*   SpecPreview     _create_similarity_pairs on long texts                *)
(*   SpecCache       calls one after the other on one EmbeddingService     *)
(*   SpecConcurrent  analyze_texts calls running at the same time          *)
(*                                                                         *)
(* Numbers.  The services compute in binary floating point.  A float is    *)
(* modelled as an integer count of units of 2^-FracBits, rounded to        *)
(* MantBits significant bits, to nearest, ties to even (IEEE 754 with a    *)
(* shorter significand; below 2^MantBits units every integer is            *)
(* representable, as for subnormals).  Inputs are finite numbers.          *)
(***************************************************************************)
EXTENDS Integers, Sequences, FiniteSets, TLC

\* ------------------------------------------------------------------ bounds

\* Significand width of the modelled floating-point format (53 in the code).
MantBits == 5

\* Binary digits after the point of the value 1.0: One == 2^FracBits.
FracBits == 7

\* Largest number of vectors, matrix rows or texts of one call.
MaxN == 3

\* The number of calls made one after the other on one EmbeddingService.
MaxHistory == 3

\* The number of analyze_texts calls running at the same time.
MaxCalls == 2

\* ------------------------------------------------------- float arithmetic

TwoP == 2 ^ MantBits

One == 2 ^ FracBits

Abs(x) == IF x < 0 THEN -x ELSE x

Sgn(x) == IF x < 0 THEN -1 ELSE 1

\* The spacing of the floats around a/d: the least power of two q with
\* a/d < q * 2^MantBits.
RECURSIVE Quantum(_, _, _)
Quantum(a, d, q) == IF a < q * TwoP * d THEN q ELSE Quantum(a, d, 2 * q)

\* The float nearest to the rational n/d (d > 0), ties to even.
RoundRat(n, d) ==
    LET a   == Abs(n)
        q   == Quantum(a, d, 1)
        qd  == q * d
        fl  == a \div qd
        rem == a % qd
        up  == (2 * rem > qd) \/ (2 * rem = qd /\ fl % 2 = 1)
    IN  Sgn(n) * (IF up THEN fl + 1 ELSE fl) * q

\* The float a decimal literal or an input value p/q denotes.
Lit(p, q) == RoundRat(p * One, q)

FAdd(a, b) == RoundRat(a + b, 1)

FSub(a, b) == RoundRat(a - b, 1)

FMul(a, b) == RoundRat(a * b, One)

\* A float divided by a positive count.
FDivCount(a, n) == RoundRat(a, n)

\* floor(sqrt(v)) for 0 <= v < (2 * One * TwoP)^2, one binary digit at a time:
\* r is the root so far, b the digit tried.
RECURSIVE ISqrtFrom(_, _, _)
ISqrtFrom(v, r, b) ==
    IF b = 0 THEN r
    ELSE IF (r + b) * (r + b) <= v THEN ISqrtFrom(v, r + b, b \div 2)
         ELSE ISqrtFrom(v, r, b \div 2)

ISqrt(v) == ISqrtFrom(v, 0, One * TwoP)

RECURSIVE SqrtQuantum(_, _)
SqrtQuantum(v, q) ==
    IF v < (q * TwoP) * (q * TwoP) THEN q ELSE SqrtQuantum(v, 2 * q)

\* The float nearest to the square root of the float a >= 0.
FSqrt(a) ==
    LET v  == a * One
        q  == SqrtQuantum(v, 1)
        fl == ISqrt(v) \div q
        up == 4 * v > (2 * fl + 1) * (2 * fl + 1) * q * q
    IN  (IF up THEN fl + 1 ELSE fl) * q

\* An optional value: None, or Some(x).
None == << >>

Some(x) == << x >>

IsSome(o) == Len(o) = 1

Get(o) == o[1]

\* ------------------------------------------------------ calls and results

\* No exception.
NoError == "none"

\* similarity.py:28
EmptyEmbeddingsError == "ValueError: Empty embeddings array provided"

\* similarity.py:82
ThresholdError == "ValueError: Threshold must be between 0.0 and 1.0"

\* The outcome of a call: the exception it raised, or the value it returned.
Raise(e) == [exc |-> e, value |-> None]

Return(v) == [exc |-> NoError, value |-> Some(v)]

\* ------------------------------------------------------ SimilarityService

\* matrix[i, j], indices from 0.
At(matrix, i, j) == matrix[i + 1][j + 1]

SetAt(matrix, i, j, x) == [matrix EXCEPT ![i + 1][j + 1] = x]

\* np.zeros((n, n))
Zeros(n) == [i \in 1..n |-> [j \in 1..n |-> 0]]

\* embeddings.size: the number of elements of the (n_texts, embedding_dim) array.
Size(embeddings) ==
    IF Len(embeddings) = 0 THEN 0 ELSE Len(embeddings) * Len(embeddings[1])

\* np.dot of two vectors: the products summed, each operation rounded.
RECURSIVE DotFrom(_, _, _, _)
DotFrom(u, v, k, acc) ==
    IF k > Len(u) THEN acc
    ELSE DotFrom(u, v, k + 1, FAdd(acc, FMul(u[k], v[k])))

Dot(u, v) == DotFrom(u, v, 1, 0)

\* MatrixCell with the diagonal computed like any other entry, as the dot
\* product of the vector with itself, instead of set to 1.0.
MatrixCellDiagonalComputed(matrix, embeddings, i, j) ==
    IF i <= j
    THEN LET similarity == Dot(embeddings[i + 1], embeddings[j + 1])
         IN  SetAt(SetAt(matrix, i, j, similarity), j, i, similarity)
    ELSE matrix

\* A float divided by a float b > 0.
FDiv(a, b) == RoundRat(a * One, b)

\* The cosine of the angle between u and v: the dot product over the product of
\* the norms (0 where a norm is 0).
Cosine(u, v) ==
    LET norms == FSqrt(FMul(Dot(u, u), Dot(v, v)))
    IN  IF norms = 0 THEN 0 ELSE FDiv(Dot(u, v), norms)

\* MatrixCell with the vectors renormalized: the cosine instead of the dot
\* product.
MatrixCellCosine(matrix, embeddings, i, j) ==
    IF i = j THEN SetAt(matrix, i, j, One)
    ELSE IF i < j
         THEN LET similarity == Cosine(embeddings[i + 1], embeddings[j + 1])
              IN  SetAt(SetAt(matrix, i, j, similarity), j, i, similarity)
         ELSE matrix

\* The body of the two loops for one (i, j).
MatrixCell(matrix, embeddings, i, j) ==
    IF i = j THEN SetAt(matrix, i, j, One)
    ELSE IF i < j
         THEN LET similarity == Dot(embeddings[i + 1], embeddings[j + 1])
              IN  SetAt(SetAt(matrix, i, j, similarity), j, i, similarity)
         ELSE matrix

\* for i in range(n_texts): for j in range(n_texts), k == i * n_texts + j.
RECURSIVE MatrixLoop(_, _, _, _)
MatrixLoop(matrix, embeddings, k, n) ==
    IF k >= n * n THEN matrix
    ELSE MatrixLoop(MatrixCell(matrix, embeddings, k \div n, k % n),
                    embeddings, k + 1, n)

\* calculate_similarity_matrix without its check of the size.
calculate_similarity_matrix_unchecked(embeddings) ==
    Return(MatrixLoop(Zeros(Len(embeddings)), embeddings, 0, Len(embeddings)))

calculate_similarity_matrix(embeddings) ==
    IF Size(embeddings) = 0 THEN Raise(EmptyEmbeddingsError)
    ELSE LET n_texts == Len(embeddings)
         IN  Return(MatrixLoop(Zeros(n_texts), embeddings, 0, n_texts))

\* for i in range(n_texts): for j in range(i + 1, n_texts): the (i, j) visited,
\* in the order visited.
RECURSIVE UpperFrom(_, _, _)
UpperFrom(i, j, n) ==
    IF i >= n THEN << >>
    ELSE IF j >= n THEN UpperFrom(i + 1, i + 2, n)
         ELSE << <<i, j>> >> \o UpperFrom(i, j + 1, n)

\* The inner loop started at i instead of i + 1: the diagonal is visited too.
RECURSIVE UpperFromDiagonal(_, _, _)
UpperFromDiagonal(i, j, n) ==
    IF i >= n THEN << >>
    ELSE IF j >= n THEN UpperFromDiagonal(i + 1, i + 1, n)
         ELSE << <<i, j>> >> \o UpperFromDiagonal(i, j + 1, n)

UpperTriangleWithDiagonal(n) == UpperFromDiagonal(0, 0, n)

UpperTriangle(n) == UpperFrom(0, 1, n)

\* The range checked with strict comparisons: 0.0 and 1.0 refused.
ThresholdInRangeStrict(threshold) == 0 < threshold /\ threshold < One

\* not 0.0 <= threshold <= 1.0
ThresholdInRange(threshold) == 0 <= threshold /\ threshold <= One

\* The comparison strict: a score equal to the threshold left out.
QualifiesStrict(similarity, threshold) == similarity > threshold

\* The comparison reversed.
QualifiesReversed(similarity, threshold) == similarity <= threshold

\* if similarity >= threshold
Qualifies(similarity, threshold) == similarity >= threshold

\* The (i, j, similarity) appended by the scan, in the order appended.
ScanPairs(matrix, threshold) ==
    LET visited == UpperTriangle(Len(matrix))
        kept    == SelectSeq(visited,
                       LAMBDA p : Qualifies(At(matrix, p[1], p[2]), threshold))
    IN  [k \in 1..Len(kept) |->
            <<kept[k][1], kept[k][2], At(matrix, kept[k][1], kept[k][2])>>]

\* x inserted before the elements of equal score: what sorting ascending and
\* reversing the list does to ties.
RECURSIVE InsertSortedBeforeEqual(_, _)
InsertSortedBeforeEqual(sorted, x) ==
    IF sorted = << >> THEN << x >>
    ELSE IF Head(sorted)[3] > x[3]
         THEN << Head(sorted) >> \o InsertSortedBeforeEqual(Tail(sorted), x)
         ELSE << x >> \o sorted

\* x inserted into a list sorted by score descending, after every element whose
\* score is at least its own.
RECURSIVE InsertSorted(_, _)
InsertSorted(sorted, x) ==
    IF sorted = << >> THEN << x >>
    ELSE IF Head(sorted)[3] >= x[3]
         THEN << Head(sorted) >> \o InsertSorted(Tail(sorted), x)
         ELSE << x >> \o sorted

\* list.sort(key=lambda x: x[2], reverse=True): a stable sort, elements of
\* equal score keep the order they had.
RECURSIVE SortFrom(_, _)
SortFrom(rest, sorted) ==
    IF rest = << >> THEN sorted
    ELSE SortFrom(Tail(rest), InsertSorted(sorted, Head(rest)))

SortByScoreDescending(pairs) == SortFrom(pairs, << >>)

find_similar_pairs(similarity_matrix, threshold) ==
    IF ~ThresholdInRange(threshold) THEN Raise(ThresholdError)
    ELSE Return(SortByScoreDescending(ScanPairs(similarity_matrix, threshold)))

\* The values the statistics are taken over.
UpperValues(matrix) ==
    LET visited == UpperTriangle(Len(matrix))
    IN  [k \in 1..Len(visited) |-> At(matrix, visited[k][1], visited[k][2])]

RECURSIVE SumFrom(_, _, _)
SumFrom(a, k, acc) ==
    IF k > Len(a) THEN acc ELSE SumFrom(a, k + 1, FAdd(acc, a[k]))

\* np.add.reduce over a short one-dimensional array (fewer than 8 elements,
\* which MaxN keeps it to): the elements added left to right.
NpSum(a) == SumFrom(a, 1, 0)

\* np.mean: the sum divided by the count.
NpMean(a) == FDivCount(NpSum(a), Len(a))

RECURSIVE MaxFrom(_, _, _)
MaxFrom(a, k, best) ==
    IF k > Len(a) THEN best
    ELSE MaxFrom(a, k + 1, IF a[k] > best THEN a[k] ELSE best)

NpMax(a) == MaxFrom(a, 2, a[1])

RECURSIVE MinFrom(_, _, _)
MinFrom(a, k, best) ==
    IF k > Len(a) THEN best
    ELSE MinFrom(a, k + 1, IF a[k] < best THEN a[k] ELSE best)

NpMin(a) == MinFrom(a, 2, a[1])

\* np.std: the square root of the mean of the squared deviations from the mean.
NpStd(a) ==
    LET m   == NpMean(a)
        dev == [k \in 1..Len(a) |-> FSub(a[k], m)]
        sq  == [k \in 1..Len(a) |-> FMul(dev[k], dev[k])]
    IN  FSqrt(FDivCount(NpSum(sq), Len(a)))

get_similarity_statistics(similarity_matrix) ==
    LET upper_triangle == UpperValues(similarity_matrix)
    IN  IF upper_triangle = << >>
        THEN [total_pairs |-> 0, mean_similarity |-> 0, max_similarity |-> 0,
              min_similarity |-> 0, std_similarity |-> 0]
        ELSE [total_pairs     |-> Len(upper_triangle),
              mean_similarity |-> NpMean(upper_triangle),
              max_similarity  |-> NpMax(upper_triangle),
              min_similarity  |-> NpMin(upper_triangle),
              std_similarity  |-> NpStd(upper_triangle)]

\* --------------------------------------------------------------- Settings

\* Settings.MODELS
MODELS ==
    [k \in {"miniLM", "mpnet", "jina-small"} |->
        CASE k = "miniLM"     -> "all-MiniLM-L6-v2"
          [] k = "mpnet"      -> "all-mpnet-base-v2"
          [] k = "jina-small" -> "jina-embeddings-v2-small-en"]

DEFAULT_MODEL == "miniLM"

\* cls.MODELS.get(model_key, cls.MODELS[cls.DEFAULT_MODEL])
get_model_name(key) ==
    IF key \in DOMAIN MODELS THEN MODELS[key] ELSE MODELS[DEFAULT_MODEL]

get_available_models == DOMAIN MODELS

\* ------------------------------------------------------- DetectionService

Whitespace == {" ", "\t", "\n"}

RECURSIVE LStrip(_)
LStrip(text) ==
    IF text # << >> /\ Head(text) \in Whitespace THEN LStrip(Tail(text))
    ELSE text

RECURSIVE RStrip(_)
RStrip(text) ==
    IF text # << >> /\ text[Len(text)] \in Whitespace
    THEN RStrip(SubSeq(text, 1, Len(text) - 1))
    ELSE text

\* str.strip()
Strip(text) == RStrip(LStrip(text))

\* str.rfind(' '): the index from 0 of the last space, -1 when there is none.
RECURSIVE RFindSpace(_)
RFindSpace(text) ==
    IF text = << >> THEN -1
    ELSE IF text[Len(text)] = " " THEN Len(text) - 1
         ELSE RFindSpace(SubSeq(text, 1, Len(text) - 1))

\* The default of max_length.
PreviewLength == 100

Ellipsis == << ".", ".", "." >>

\* A text is a sequence of characters.  last_space > max_length * 0.8 is
\* compared exactly, in tenths.
_create_text_preview(text, max_length) ==
    LET stripped == Strip(text)
    IN  IF Len(stripped) <= max_length THEN stripped
        ELSE LET truncated  == RStrip(SubSeq(stripped, 1, max_length))
                 last_space == RFindSpace(truncated)
             IN  (IF 10 * last_space > 8 * max_length
                  THEN SubSeq(truncated, 1, last_space)
                  ELSE truncated) \o Ellipsis

\* One SimilarityPair for each (index1, index2, similarity), in order.
_create_similarity_pairs(similar_pairs_raw, docs) ==
    [k \in 1..Len(similar_pairs_raw) |->
        [index_1        |-> similar_pairs_raw[k][1],
         index_2        |-> similar_pairs_raw[k][2],
         similarity     |-> similar_pairs_raw[k][3],
         text_1_preview |->
             _create_text_preview(docs[similar_pairs_raw[k][1] + 1], PreviewLength),
         text_2_preview |->
             _create_text_preview(docs[similar_pairs_raw[k][2] + 1], PreviewLength)]]

\* ------------------------------------------------------------------ state

VARIABLES
    op,                 \* the entry point called
    pc,                 \* where the call is
    texts,              \* argument: the texts
    model_key,          \* argument: the model key
    threshold,          \* argument: the threshold
    threshold2,         \* the threshold of a second find_similar_pairs call
    _models,            \* EmbeddingService._models: key -> the model loaded
    embeddings,         \* the embeddings (an argument, or generated)
    similarity_matrix,  \* the matrix (an argument, or computed): None | Some
    similar_pairs,      \* what find_similar_pairs returned: None | Some
    similar_pairs2,     \* what the second find_similar_pairs returned
    statistics,         \* what get_similarity_statistics returned
    plagiarized_pairs,  \* analyze_texts: the SimilarityPairs built
    metadata,           \* analyze_texts: the metadata built
    exc,                \* the exception the call ended with, or NoError
    calls,              \* the functions called so far, in order
    strict_threshold,   \* detect_potential_plagiarism: argument
    strict_pairs,       \* detect_potential_plagiarism: find_similar_pairs at
                        \* strict_threshold: None | Some
    moderate_pairs,     \* detect_potential_plagiarism: find_similar_pairs at
                        \* moderate_threshold: None | Some
    result,             \* the dict returned by detect_potential_plagiarism or
                        \* get_text_similarity_report: None | Some
    status_code,        \* compare_two_texts: the HTTP status, 0 before it
    history,            \* one EmbeddingService: what its calls did, in order
    running             \* concurrent analyze_texts calls: id -> its locals

\* The variables of detect_potential_plagiarism and compare_two_texts.
detectVars ==
    << strict_threshold, strict_pairs, moderate_pairs, result, status_code >>

vars ==
    << op, pc, texts, model_key, threshold, threshold2, _models, embeddings,
       similarity_matrix, similar_pairs, similar_pairs2, statistics,
       plagiarized_pairs, metadata, exc, calls, detectVars, history, running >>

\* ----------------------------------------------------------------- inputs

SeqsUpTo(S, n) == UNION { [1..k -> S] : k \in 0..n }

\* Vectors of unit length (3/5, 4/5 rounded): what encode returns with
\* normalize_embeddings=True.
UnitVectors ==
    { << One, 0 >>, << Lit(3, 5), Lit(4, 5) >>, << Lit(-3, 5), Lit(4, 5) >> }

\* Vectors passed to calculate_similarity_matrix directly: unit length or not.
Vectors ==
    UnitVectors \cup { << Lit(4, 5), Lit(3, 5) >>, << One, One >>, << 0, 0 >> }

\* Entries of the matrices passed to find_similar_pairs and
\* get_similarity_statistics directly.
Scores == { Lit(-1, 5), Lit(1, 5), Lit(3, 10), Lit(9, 10) }

\* Thresholds: below 0.0, 0.0, 0.7, 0.9, 1.0, above 1.0.
Thresholds == { Lit(-1, 10), 0, Lit(7, 10), Lit(9, 10), One, Lit(11, 10) }

UpperIndexes(n) == { <<i, j>> \in (0..n - 1) \X (0..n - 1) : i < j }

\* The n x n matrix with diagonal 1.0 and the entries u above it; below it the
\* same entries (symmetric), or 1.0 everywhere.
MakeMatrix(n, u, symmetric) ==
    [i \in 1..n |-> [j \in 1..n |->
        IF i = j THEN One
        ELSE IF i < j THEN u[<<i - 1, j - 1>>]
        ELSE IF symmetric THEN u[<<j - 1, i - 1>>] ELSE One]]

Matrices ==
    UNION { { MakeMatrix(n, u, b) : u \in [UpperIndexes(n) -> Scores],
                                    b \in BOOLEAN } : n \in 0..MaxN }

\* A text is a sequence of characters.
Docs == { << "a" >>, << " ", "b", " ", "c" >> }

ModelKeys == get_available_models \cup { "unknown" }

\* Unit vectors whose dot product with (1, 0) is exactly 0.7 and exactly 0.85,
\* the limits of get_text_similarity_report.
BandVectors ==
    { << Lit(7, 10), Lit(5, 7) >>, << Lit(85, 100), Lit(53, 100) >> }

\* What encode returns in a call of the entry point entry.
EncodeVectors(entry) ==
    IF entry = "compare_two_texts"
    THEN UnitVectors \cup BandVectors
    ELSE UnitVectors

\* The texts of compare_two_texts: also the empty one and blank ones.
CompareDocs == Docs \cup { << >>, << " " >>, << "\t", " " >> }

\* n times the character c.
Chars(n, c) == [k \in 1..n |-> c]

\* The texts of _create_similarity_pairs called directly: short ones, ones of
\* 100 and 101 characters, and longer ones with a space or a tab at or around
\* character 80 and at the end of the first 100 characters.
PreviewTexts ==
    { << " ", "a", " ", "b", "\n" >>,
      Chars(100, "a"),
      << " " >> \o Chars(100, "a") \o << " ", "\t" >>,
      Chars(101, "a"),
      Chars(60, "a") \o << " " >> \o Chars(60, "b"),
      Chars(80, "a") \o << " " >> \o Chars(30, "b"),
      Chars(81, "a") \o << " " >> \o Chars(30, "b"),
      << " " >> \o Chars(85, "a") \o << " " >> \o Chars(30, "b"),
      Chars(90, "a") \o << "\t" >> \o Chars(30, "b"),
      Chars(85, "a") \o << " " >> \o Chars(13, "b") \o << " " >>
          \o Chars(20, "c"),
      Chars(99, "a") \o << " " >> \o Chars(20, "b"),
      Chars(50, "a") \o Chars(50, " ") \o Chars(10, "b") }

\* strict_threshold: below 0.0, the default 0.85, 1.0, above 1.0.
StrictThresholds == { Lit(-1, 10), Lit(85, 100), One, Lit(11, 10) }

\* model_key of detect_potential_plagiarism: the default and an unknown one.
DetectModelKeys == { DEFAULT_MODEL, "unknown" }

\* The models a service can hold: any of the available ones, each loaded
\* under its own name.
Caches == { [k \in S |-> MODELS[k]] : S \in SUBSET get_available_models }

NoCache == [k \in {} |-> MODELS[k]]

\* The service detect_potential_plagiarism runs on: no model loaded, or the
\* default one.
DetectCaches == { NoCache, [k \in {DEFAULT_MODEL} |-> MODELS[k]] }

\* ------------------------------------------------------- EmbeddingService

\* embeddings.py:71
NoTextsError == "ValueError: No texts provided for embedding generation"

\* embeddings.py:75
InvalidModelKeyError == "ValueError: Invalid model key"

\* embeddings.py:55
LoadModelError == "RuntimeError: Failed to load model"

\* embeddings.py:95
EncodeError == "RuntimeError: Failed to generate embeddings"

\* api/analyze.py:203
BlankTextError == "ValueError: Both texts must be non-empty"

\* except ValueError
ValueErrors ==
    { EmptyEmbeddingsError, ThresholdError, NoTextsError, InvalidModelKeyError,
      BlankTextError }

\* self._models[model_key] = SentenceTransformer(model_name, ...)
StoreModel(cache, key) ==
    [k \in DOMAIN cache \cup {key} |->
        IF k = key THEN get_model_name(key) ELSE cache[k]]

\* _load_model without its test of model_key not in self._models.
_load_model_unguarded(cache, key, constructed) ==
    IF constructed
    THEN [cache |-> StoreModel(cache, key), loading |-> TRUE, exc |-> NoError]
    ELSE [cache |-> cache, loading |-> TRUE, exc |-> LoadModelError]

\* _load_model(model_key) on the models cache: the models held after it,
\* whether SentenceTransformer(...) was called, and the exception; constructed
\* says whether that call, if made, returns a model.
_load_model(cache, key, constructed) ==
    IF key \in DOMAIN cache
    THEN [cache |-> cache, loading |-> FALSE, exc |-> NoError]
    ELSE IF constructed
         THEN [cache |-> StoreModel(cache, key), loading |-> TRUE,
               exc |-> NoError]
         ELSE [cache |-> cache, loading |-> TRUE, exc |-> LoadModelError]

\* return model_key in self._models
is_model_loaded(cache, key) == key \in DOMAIN cache

\* del self._models[model_key], if it is there
unload_model(cache, key) == [k \in DOMAIN cache \ {key} |-> cache[k]]

\* self._models.clear()
clear_all_models(cache) == NoCache

\* The arguments of the analyze_texts calls that run at the same time.
ConcurrentRequests ==
    { [texts |-> << << "a" >>, << " ", "b", " ", "c" >> >>,
       model_key |-> DEFAULT_MODEL, threshold |-> Lit(7, 10)],
      [texts |-> << << " ", "b", " ", "c" >>, << "a" >>, << "a" >> >>,
       model_key |-> DEFAULT_MODEL, threshold |-> 0],
      [texts |-> << << "a" >> >>,
       model_key |-> "mpnet", threshold |-> Lit(9, 10)] }

\* What encode returns in these calls.
ConcurrentVectors == { << One, 0 >>, << Lit(3, 5), Lit(4, 5) >> }

\* The locals of an analyze_texts call that has not started.
NewCall(request) ==
    [pc                |-> "generate_embeddings",
     texts             |-> request.texts,
     model_key         |-> request.model_key,
     threshold         |-> request.threshold,
     model             |-> None,
     embeddings        |-> << >>,
     similarity_matrix |-> None,
     plagiarized_pairs |-> None,
     metadata          |-> None,
     exc               |-> NoError]

\* The model keys of the calls on one EmbeddingService.
CacheKeys == { DEFAULT_MODEL, "mpnet", "unknown" }

\* What a call on the EmbeddingService did: the method, its model key, whether
\* SentenceTransformer(...) was called, the exception it raised, and the keys
\* of the models held when it ended.
Entry(call, key, loading, e, cache) ==
    [call |-> call, key |-> key, loading |-> loading, exc |-> e,
     loaded |-> DOMAIN cache]

\* ------------------------------------------------------------------- Init

\* The variables no call has set yet.
Fresh ==
    /\ threshold2 = 0
    /\ similar_pairs = None
    /\ similar_pairs2 = None
    /\ statistics = None
    /\ plagiarized_pairs = None
    /\ metadata = None
    /\ exc = NoError
    /\ calls = << >>
    /\ strict_threshold = 0
    /\ strict_pairs = None
    /\ moderate_pairs = None
    /\ result = None
    /\ status_code = 0
    /\ history = << >>
    /\ running = << >>

\* similarity_service.calculate_similarity_matrix(embeddings)
InitCalculate ==
    /\ op = "calculate_similarity_matrix"
    /\ pc = "calculate_similarity_matrix"
    /\ embeddings \in SeqsUpTo(Vectors, MaxN)
    /\ similarity_matrix = None
    /\ texts = << >> /\ model_key = DEFAULT_MODEL /\ threshold = 0
    /\ _models = NoCache
    /\ Fresh

\* similarity_service.find_similar_pairs(similarity_matrix, threshold)
InitFind ==
    /\ op = "find_similar_pairs"
    /\ pc = "find_similar_pairs"
    /\ similarity_matrix \in { Some(m) : m \in Matrices }
    /\ threshold \in Thresholds
    /\ embeddings = << >>
    /\ texts = << >> /\ model_key = DEFAULT_MODEL
    /\ _models = NoCache
    /\ Fresh

\* similarity_service.get_similarity_statistics(similarity_matrix)
InitStatistics ==
    /\ op = "get_similarity_statistics"
    /\ pc = "get_similarity_statistics"
    /\ similarity_matrix \in { Some(m) : m \in Matrices }
    /\ embeddings = << >>
    /\ texts = << >> /\ model_key = DEFAULT_MODEL /\ threshold = 0
    /\ _models = NoCache
    /\ Fresh

\* detection_service.analyze_texts(texts, model_key, threshold), on a service
\* holding any of the models.
InitAnalyze ==
    /\ op = "analyze_texts"
    /\ pc = "generate_embeddings"
    /\ texts \in SeqsUpTo(Docs, MaxN)
    /\ model_key \in ModelKeys
    /\ threshold \in Thresholds
    /\ _models \in Caches
    /\ embeddings = << >>
    /\ similarity_matrix = None
    /\ Fresh

Init == InitCalculate \/ InitFind \/ InitStatistics \/ InitAnalyze

\* detection_service.detect_potential_plagiarism(texts, model_key,
\* strict_threshold, moderate_threshold): its first statement calls
\* analyze_texts(texts, model_key, moderate_threshold), so threshold is
\* moderate_threshold.
InitDetect ==
    /\ op = "detect_potential_plagiarism"
    /\ pc = "generate_embeddings"
    /\ texts \in SeqsUpTo(Docs, MaxN)
    /\ model_key \in DetectModelKeys
    /\ threshold \in Thresholds
    /\ _models \in DetectCaches
    /\ embeddings = << >>
    /\ similarity_matrix = None
    /\ threshold2 = 0
    /\ similar_pairs = None
    /\ similar_pairs2 = None
    /\ statistics = None
    /\ plagiarized_pairs = None
    /\ metadata = None
    /\ exc = NoError
    /\ calls = << >>
    /\ strict_threshold \in StrictThresholds
    /\ strict_pairs = None
    /\ moderate_pairs = None
    /\ result = None
    /\ status_code = 0
    /\ history = << >>
    /\ running = << >>

\* POST /compare: compare_two_texts(text1, text2, model_key); texts is
\* [text1, text2] and threshold the 0.0 that get_text_similarity_report passes
\* to analyze_texts.
InitCompare ==
    /\ op = "compare_two_texts"
    /\ pc = "compare_two_texts"
    /\ texts \in [1..2 -> CompareDocs]
    /\ model_key \in ModelKeys
    /\ threshold = 0
    /\ _models \in Caches
    /\ embeddings = << >>
    /\ similarity_matrix = None
    /\ Fresh

InitDetection == InitAnalyze \/ InitDetect \/ InitCompare

\* MaxCalls calls of detection_service.analyze_texts on the module-level
\* services, no model loaded, none of the calls started.
InitConcurrent ==
    /\ op = "concurrent"
    /\ pc = "running"
    /\ _models = NoCache
    /\ texts = << >> /\ model_key = DEFAULT_MODEL /\ threshold = 0
    /\ embeddings = << >>
    /\ similarity_matrix = None
    /\ threshold2 = 0
    /\ similar_pairs = None
    /\ similar_pairs2 = None
    /\ statistics = None
    /\ plagiarized_pairs = None
    /\ metadata = None
    /\ exc = NoError
    /\ calls = << >>
    /\ strict_threshold = 0
    /\ strict_pairs = None
    /\ moderate_pairs = None
    /\ result = None
    /\ status_code = 0
    /\ history = << >>
    /\ running \in [1..MaxCalls -> { NewCall(r) : r \in ConcurrentRequests }]

\* embedding_service = EmbeddingService(): no model loaded, no call made.
InitCache ==
    /\ op = "EmbeddingService"
    /\ pc = "idle"
    /\ _models = NoCache
    /\ texts = << >> /\ model_key = DEFAULT_MODEL /\ threshold = 0
    /\ embeddings = << >>
    /\ similarity_matrix = None
    /\ Fresh

\* detection_service._create_similarity_pairs(similar_pairs_raw, texts) for
\* one pair of two texts.
InitPreview ==
    /\ op = "_create_similarity_pairs"
    /\ pc = "_create_similarity_pairs"
    /\ texts \in [1..2 -> PreviewTexts]
    /\ similar_pairs = Some(<< << 0, 1, Lit(9, 10) >> >>)
    /\ model_key = DEFAULT_MODEL /\ threshold = 0
    /\ _models = NoCache
    /\ embeddings = << >>
    /\ similarity_matrix = None
    /\ threshold2 = 0
    /\ similar_pairs2 = None
    /\ statistics = None
    /\ plagiarized_pairs = None
    /\ metadata = None
    /\ exc = NoError
    /\ calls = << >>
    /\ strict_threshold = 0
    /\ strict_pairs = None
    /\ moderate_pairs = None
    /\ result = None
    /\ status_code = 0
    /\ history = << >>
    /\ running = << >>

\* ---------------------------------------------------------------- actions

\* generate_embeddings without its check of the texts.
GenerateEmbeddingsUnchecked ==
    /\ pc = "generate_embeddings"
    /\ calls' = Append(calls, "generate_embeddings")
    /\ IF model_key \notin get_available_models
       THEN exc' = InvalidModelKeyError /\ pc' = "done"
       ELSE /\ exc' = exc
            /\ pc' = IF model_key \in DOMAIN _models
                     THEN "encode" ELSE "load_model"
    /\ UNCHANGED << op, texts, model_key, threshold, threshold2, _models,
                    embeddings, similarity_matrix, similar_pairs,
                    similar_pairs2, statistics, plagiarized_pairs, metadata >>
    /\ UNCHANGED << detectVars, history, running >>

\* generate_embeddings without its check of the model key.
GenerateEmbeddingsNoKeyCheck ==
    /\ pc = "generate_embeddings"
    /\ calls' = Append(calls, "generate_embeddings")
    /\ IF texts = << >>
       THEN exc' = NoTextsError /\ pc' = "done"
       ELSE /\ exc' = exc
            /\ pc' = IF model_key \in DOMAIN _models
                     THEN "encode" ELSE "load_model"
    /\ UNCHANGED << op, texts, model_key, threshold, threshold2, _models,
                    embeddings, similarity_matrix, similar_pairs,
                    similar_pairs2, statistics, plagiarized_pairs, metadata >>
    /\ UNCHANGED << detectVars, history, running >>

\* generate_embeddings, to the lookup of the model in _load_model.
GenerateEmbeddings ==
    /\ pc = "generate_embeddings"
    /\ calls' = Append(calls, "generate_embeddings")
    /\ IF texts = << >>
       THEN exc' = NoTextsError /\ pc' = "done"
       ELSE IF model_key \notin get_available_models
            THEN exc' = InvalidModelKeyError /\ pc' = "done"
            ELSE /\ exc' = exc
                 /\ pc' = IF model_key \in DOMAIN _models
                          THEN "encode" ELSE "load_model"
    /\ UNCHANGED << op, texts, model_key, threshold, threshold2, _models,
                    embeddings, similarity_matrix, similar_pairs,
                    similar_pairs2, statistics, plagiarized_pairs, metadata >>
    /\ UNCHANGED << detectVars, history, running >>

\* _load_model, the model not loaded: SentenceTransformer(...) returns the
\* model, which is stored, or raises.
LoadModel ==
    /\ pc = "load_model"
    /\ calls' = Append(calls, "SentenceTransformer")
    /\ \/ /\ _models' = StoreModel(_models, model_key)
          /\ pc' = "encode"
          /\ exc' = exc
       \/ /\ _models' = _models
          /\ pc' = "done"
          /\ exc' = LoadModelError
    /\ UNCHANGED << op, texts, model_key, threshold, threshold2, embeddings,
                    similarity_matrix, similar_pairs, similar_pairs2,
                    statistics, plagiarized_pairs, metadata >>
    /\ UNCHANGED << detectVars, history, running >>

\* encode, called again from the start of generate_embeddings when it raises.
EncodeRetried ==
    /\ pc = "encode"
    /\ calls' = Append(calls, "encode")
    /\ \/ \E f \in [Docs -> EncodeVectors(op)] :
            /\ embeddings' = [k \in 1..Len(texts) |-> f[texts[k]]]
            /\ pc' = "calculate_similarity_matrix"
       \/ /\ embeddings' = embeddings
          /\ pc' = "generate_embeddings"
    /\ exc' = exc
    /\ UNCHANGED << op, texts, model_key, threshold, threshold2, _models,
                    similarity_matrix, similar_pairs, similar_pairs2,
                    statistics, plagiarized_pairs, metadata >>
    /\ UNCHANGED << detectVars, history, running >>

\* model.encode(texts, normalize_embeddings=True): one unit vector for each
\* text, the same for the same text, or an exception.
Encode ==
    /\ pc = "encode"
    /\ calls' = Append(calls, "encode")
    /\ \/ \E f \in [Docs -> EncodeVectors(op)] :
            /\ embeddings' = [k \in 1..Len(texts) |-> f[texts[k]]]
            /\ pc' = "calculate_similarity_matrix"
            /\ exc' = exc
       \/ /\ embeddings' = embeddings
          /\ pc' = "done"
          /\ exc' = EncodeError
    /\ UNCHANGED << op, texts, model_key, threshold, threshold2, _models,
                    similarity_matrix, similar_pairs, similar_pairs2,
                    statistics, plagiarized_pairs, metadata >>
    /\ UNCHANGED << detectVars, history, running >>

\* calculate_similarity_matrix(embeddings): called directly, or step 2 of
\* analyze_texts.
CalculateSimilarityMatrix ==
    /\ pc = "calculate_similarity_matrix"
    /\ calls' = Append(calls, "calculate_similarity_matrix")
    /\ LET r == calculate_similarity_matrix(embeddings)
       IN  /\ similarity_matrix' = r.value
           /\ exc' = r.exc
           /\ pc' = IF r.exc # NoError \/ op = "calculate_similarity_matrix"
                    THEN "done" ELSE "find_similar_pairs"
    /\ UNCHANGED << op, texts, model_key, threshold, threshold2, _models,
                    embeddings, similar_pairs, similar_pairs2, statistics,
                    plagiarized_pairs, metadata >>
    /\ UNCHANGED << detectVars, history, running >>

\* find_similar_pairs(similarity_matrix, threshold): called directly, or step 3
\* of analyze_texts.
FindSimilarPairs ==
    /\ pc = "find_similar_pairs"
    /\ calls' = Append(calls, "find_similar_pairs")
    /\ LET r == find_similar_pairs(Get(similarity_matrix), threshold)
       IN  /\ similar_pairs' = r.value
           /\ exc' = r.exc
           /\ pc' = IF r.exc # NoError THEN "done"
                    ELSE IF op = "find_similar_pairs"
                         THEN "find_similar_pairs_again"
                         ELSE "create_similarity_pairs"
    /\ UNCHANGED << op, texts, model_key, threshold, threshold2, _models,
                    embeddings, similarity_matrix, similar_pairs2, statistics,
                    plagiarized_pairs, metadata >>
    /\ UNCHANGED << detectVars, history, running >>

\* A second direct call, find_similar_pairs(similarity_matrix, threshold2), on
\* the matrix of the first.
FindSimilarPairsAgain ==
    /\ pc = "find_similar_pairs_again"
    /\ calls' = Append(calls, "find_similar_pairs")
    /\ \E t \in Thresholds :
          LET r == find_similar_pairs(Get(similarity_matrix), t)
          IN  /\ threshold2' = t
              /\ similar_pairs2' = r.value
              /\ exc' = r.exc
    /\ pc' = "done"
    /\ UNCHANGED << op, texts, model_key, threshold, _models, embeddings,
                    similarity_matrix, similar_pairs, statistics,
                    plagiarized_pairs, metadata >>
    /\ UNCHANGED << detectVars, history, running >>

\* get_similarity_statistics(similarity_matrix), called directly.
GetSimilarityStatistics ==
    /\ pc = "get_similarity_statistics"
    /\ calls' = Append(calls, "get_similarity_statistics")
    /\ statistics' = Some(get_similarity_statistics(Get(similarity_matrix)))
    /\ pc' = "done"
    /\ UNCHANGED << op, texts, model_key, threshold, threshold2, _models,
                    embeddings, similarity_matrix, similar_pairs,
                    similar_pairs2, plagiarized_pairs, metadata, exc >>
    /\ UNCHANGED << detectVars, history, running >>

\* Steps 4 and 5 of analyze_texts and its return, to its caller if it has
\* one: the SimilarityPairs, the metadata with the statistics (execution_time,
\* a clock reading, is left out).
AssembleResult ==
    /\ pc = "create_similarity_pairs"
    /\ calls' = calls \o << "_create_similarity_pairs",
                            "get_similarity_statistics" >>
    /\ plagiarized_pairs' =
           Some(_create_similarity_pairs(Get(similar_pairs), texts))
    /\ statistics' = Some(get_similarity_statistics(Get(similarity_matrix)))
    /\ metadata' =
           Some([model_used        |-> model_key,
                 threshold_used    |-> threshold,
                 total_comparisons |-> (Len(texts) * (Len(texts) - 1)) \div 2,
                 similarity_stats  |->
                     get_similarity_statistics(Get(similarity_matrix))])
    /\ pc' = IF op = "detect_potential_plagiarism" THEN "strict_pairs"
             ELSE IF op = "compare_two_texts" THEN "similarity_report"
             ELSE "done"
    /\ UNCHANGED << op, texts, model_key, threshold, threshold2, _models,
                    embeddings, similarity_matrix, similar_pairs,
                    similar_pairs2, exc >>
    /\ UNCHANGED << detectVars, history, running >>

\* compare_two_texts testing the texts without strip().
CompareTwoTextsUnstripped ==
    /\ pc = "compare_two_texts"
    /\ IF texts[1] = << >> \/ texts[2] = << >>
       THEN /\ exc' = BlankTextError
            /\ pc' = "done"
            /\ calls' = Append(calls, "compare_two_texts")
       ELSE /\ exc' = exc
            /\ pc' = "generate_embeddings"
            /\ calls' = calls \o << "compare_two_texts",
                                    "get_text_similarity_report" >>
    /\ UNCHANGED << op, texts, model_key, threshold, threshold2, _models,
                    embeddings, similarity_matrix, similar_pairs,
                    similar_pairs2, statistics, plagiarized_pairs, metadata >>
    /\ UNCHANGED << detectVars, history, running >>

\* compare_two_texts, to its call of get_text_similarity_report, whose first
\* statement calls analyze_texts.
CompareTwoTexts ==
    /\ pc = "compare_two_texts"
    /\ IF Strip(texts[1]) = << >> \/ Strip(texts[2]) = << >>
       THEN /\ exc' = BlankTextError
            /\ pc' = "done"
            /\ calls' = Append(calls, "compare_two_texts")
       ELSE /\ exc' = exc
            /\ pc' = "generate_embeddings"
            /\ calls' = calls \o << "compare_two_texts",
                                    "get_text_similarity_report" >>
    /\ UNCHANGED << op, texts, model_key, threshold, threshold2, _models,
                    embeddings, similarity_matrix, similar_pairs,
                    similar_pairs2, statistics, plagiarized_pairs, metadata >>
    /\ UNCHANGED << detectVars, history, running >>

\* get_text_similarity_report with > in the place of >=.
SimilarityReportStrict ==
    /\ pc = "similarity_report"
    /\ LET similarity_score == At(Get(similarity_matrix), 0, 1)
       IN  result' =
               Some([similarity_score      |-> similarity_score,
                     is_highly_similar     |->
                         similarity_score > Lit(85, 100),
                     is_moderately_similar |->
                         similarity_score > Lit(7, 10),
                     text1_preview         |->
                         _create_text_preview(texts[1], PreviewLength),
                     text2_preview         |->
                         _create_text_preview(texts[2], PreviewLength),
                     model_used            |-> model_key])
    /\ pc' = "done"
    /\ UNCHANGED << op, texts, model_key, threshold, threshold2, _models,
                    embeddings, similarity_matrix, similar_pairs,
                    similar_pairs2, statistics, plagiarized_pairs, metadata,
                    exc, calls >>
    /\ UNCHANGED << strict_threshold, strict_pairs, moderate_pairs,
                    status_code, history, running >>

\* get_text_similarity_report after analyze_texts has returned: the report.
SimilarityReport ==
    /\ pc = "similarity_report"
    /\ LET similarity_score == At(Get(similarity_matrix), 0, 1)
       IN  result' =
               Some([similarity_score      |-> similarity_score,
                     is_highly_similar     |->
                         similarity_score >= Lit(85, 100),
                     is_moderately_similar |->
                         similarity_score >= Lit(7, 10),
                     text1_preview         |->
                         _create_text_preview(texts[1], PreviewLength),
                     text2_preview         |->
                         _create_text_preview(texts[2], PreviewLength),
                     model_used            |-> model_key])
    /\ pc' = "done"
    /\ UNCHANGED << op, texts, model_key, threshold, threshold2, _models,
                    embeddings, similarity_matrix, similar_pairs,
                    similar_pairs2, statistics, plagiarized_pairs, metadata,
                    exc, calls >>
    /\ UNCHANGED << strict_threshold, strict_pairs, moderate_pairs,
                    status_code, history, running >>

\* compare_two_texts, the end: the report is returned, or the exception is
\* answered as an HTTPException, 400 for a ValueError and 500 for any other.
CompareRespond ==
    /\ op = "compare_two_texts"
    /\ pc = "done"
    /\ status_code' = IF exc = NoError THEN 200
                      ELSE IF exc \in ValueErrors THEN 400
                      ELSE 500
    /\ pc' = "responded"
    /\ UNCHANGED << op, texts, model_key, threshold, threshold2, _models,
                    embeddings, similarity_matrix, similar_pairs,
                    similar_pairs2, statistics, plagiarized_pairs, metadata,
                    exc, calls >>
    /\ UNCHANGED << strict_threshold, strict_pairs, moderate_pairs, result,
                    history, running >>

\* detect_potential_plagiarism after analyze_texts has returned:
\* find_similar_pairs(similarity_matrix, strict_threshold).
DetectStrictPairs ==
    /\ pc = "strict_pairs"
    /\ calls' = Append(calls, "find_similar_pairs")
    /\ LET r == find_similar_pairs(Get(similarity_matrix), strict_threshold)
       IN  /\ strict_pairs' = r.value
           /\ exc' = r.exc
           /\ pc' = IF r.exc # NoError THEN "done" ELSE "moderate_pairs"
    /\ UNCHANGED << op, texts, model_key, threshold, threshold2, _models,
                    embeddings, similarity_matrix, similar_pairs,
                    similar_pairs2, statistics, plagiarized_pairs, metadata >>
    /\ UNCHANGED << strict_threshold, moderate_pairs, result, status_code,
                    history, running >>

\* find_similar_pairs(similarity_matrix, moderate_threshold).
DetectModeratePairs ==
    /\ pc = "moderate_pairs"
    /\ calls' = Append(calls, "find_similar_pairs")
    /\ LET r == find_similar_pairs(Get(similarity_matrix), threshold)
       IN  /\ moderate_pairs' = r.value
           /\ exc' = r.exc
           /\ pc' = IF r.exc # NoError THEN "done" ELSE "detect_return"
    /\ UNCHANGED << op, texts, model_key, threshold, threshold2, _models,
                    embeddings, similarity_matrix, similar_pairs,
                    similar_pairs2, statistics, plagiarized_pairs, metadata >>
    /\ UNCHANGED << strict_threshold, strict_pairs, result, status_code,
                    history, running >>

\* The SimilarityPairs of both lists and the dict returned.
DetectReturn ==
    /\ pc = "detect_return"
    /\ calls' = calls \o << "_create_similarity_pairs",
                            "_create_similarity_pairs" >>
    /\ result' =
           Some([high_confidence_plagiarism     |->
                     _create_similarity_pairs(Get(strict_pairs), texts),
                 moderate_confidence_plagiarism |->
                     _create_similarity_pairs(Get(moderate_pairs), texts),
                 similarity_matrix              |-> Get(similarity_matrix),
                 metadata                       |-> Get(metadata)])
    /\ pc' = "done"
    /\ UNCHANGED << op, texts, model_key, threshold, threshold2, _models,
                    embeddings, similarity_matrix, similar_pairs,
                    similar_pairs2, statistics, plagiarized_pairs, metadata,
                    exc >>
    /\ UNCHANGED << strict_threshold, strict_pairs, moderate_pairs,
                    status_code, history, running >>

Next ==
    \/ GenerateEmbeddings
    \/ LoadModel
    \/ Encode
    \/ CalculateSimilarityMatrix
    \/ FindSimilarPairs
    \/ FindSimilarPairsAgain
    \/ GetSimilarityStatistics
    \/ AssembleResult

Spec == Init /\ [][Next]_vars

\* What the concurrent calls leave alone: all but their locals, _models and
\* the log of the models loaded.
concurrentUnchanged ==
    UNCHANGED << op, pc, texts, model_key, threshold, threshold2, embeddings,
                 similarity_matrix, similar_pairs, similar_pairs2, statistics,
                 plagiarized_pairs, metadata, exc, detectVars, history >>

\* Call p: generate_embeddings to the test of _load_model, which reads
\* self._models.
ConcurrentGenerateEmbeddings(p) ==
    /\ running[p].pc = "generate_embeddings"
    /\ LET call == running[p]
       IN  running' =
               [running EXCEPT ![p] =
                   IF call.texts = << >>
                   THEN [call EXCEPT !.exc = NoTextsError, !.pc = "done"]
                   ELSE IF call.model_key \notin get_available_models
                   THEN [call EXCEPT !.exc = InvalidModelKeyError,
                                     !.pc = "done"]
                   ELSE [call EXCEPT
                            !.pc = IF call.model_key \in DOMAIN _models
                                   THEN "return_model" ELSE "load_model"]]
    /\ UNCHANGED << _models, calls >>
    /\ concurrentUnchanged

\* Call p: SentenceTransformer(...) returns the model, which is stored in
\* self._models, or raises.
ConcurrentLoadModel(p) ==
    /\ running[p].pc = "load_model"
    /\ \/ /\ _models' = StoreModel(_models, running[p].model_key)
          /\ running' = [running EXCEPT ![p].pc = "return_model"]
       \/ /\ _models' = _models
          /\ running' = [running EXCEPT ![p].exc = LoadModelError,
                                        ![p].pc = "done"]
    /\ calls' = Append(calls, "SentenceTransformer")
    /\ concurrentUnchanged

\* Call p: return self._models[model_key]
ConcurrentReturnModel(p) ==
    /\ running[p].pc = "return_model"
    /\ LET call == running[p]
       IN  running' =
               [running EXCEPT ![p] =
                   IF call.model_key \in DOMAIN _models
                   THEN [call EXCEPT !.model = Some(_models[call.model_key]),
                                     !.pc = "encode"]
                   ELSE [call EXCEPT !.exc = "KeyError", !.pc = "done"]]
    /\ UNCHANGED << _models, calls >>
    /\ concurrentUnchanged

\* Call p: model.encode(texts, ...)
ConcurrentEncode(p) ==
    /\ running[p].pc = "encode"
    /\ \/ \E f \in [Docs -> ConcurrentVectors] :
            running' =
                [running EXCEPT ![p].embeddings =
                                    [k \in 1..Len(running[p].texts) |->
                                        f[running[p].texts[k]]],
                                ![p].pc = "calculate_similarity_matrix"]
       \/ running' = [running EXCEPT ![p].exc = EncodeError,
                                     ![p].pc = "done"]
    /\ UNCHANGED << _models, calls >>
    /\ concurrentUnchanged

\* The locals of a call after steps 2 to 5 of analyze_texts, on the
\* embeddings given.
Analyzed(call, vectors) ==
    LET m == calculate_similarity_matrix(vectors)
    IN  IF m.exc # NoError
        THEN [call EXCEPT !.exc = m.exc, !.pc = "done"]
        ELSE LET r == find_similar_pairs(Get(m.value), call.threshold)
             IN  IF r.exc # NoError
                 THEN [call EXCEPT !.similarity_matrix = m.value,
                                   !.exc = r.exc, !.pc = "done"]
                 ELSE [call EXCEPT
                          !.similarity_matrix = m.value,
                          !.plagiarized_pairs =
                              Some(_create_similarity_pairs(Get(r.value),
                                                            call.texts)),
                          !.metadata =
                              Some([model_used        |-> call.model_key,
                                    threshold_used    |-> call.threshold,
                                    total_comparisons |->
                                        (Len(call.texts)
                                            * (Len(call.texts) - 1)) \div 2,
                                    similarity_stats  |->
                                        get_similarity_statistics(
                                            Get(m.value))]),
                          !.pc = "done"]

\* Steps 2 to 5 on embeddings kept on the service, where the call that encoded
\* last has put its own.
ConcurrentAnalyzeShared(p) ==
    /\ running[p].pc = "calculate_similarity_matrix"
    /\ \E q \in DOMAIN running :
          /\ running[q].embeddings # << >>
          /\ running' =
                 [running EXCEPT
                     ![p] = Analyzed(running[p], running[q].embeddings)]
    /\ UNCHANGED << _models, calls >>
    /\ concurrentUnchanged

\* Call p: steps 2 to 5 of analyze_texts and its return, on its own
\* embeddings; none of them reads or writes anything shared.
ConcurrentAnalyze(p) ==
    /\ running[p].pc = "calculate_similarity_matrix"
    /\ running' =
           [running EXCEPT
               ![p] = Analyzed(running[p], running[p].embeddings)]
    /\ UNCHANGED << _models, calls >>
    /\ concurrentUnchanged

\* One step of one of the calls.
NextConcurrent ==
    \/ \E p \in DOMAIN running : ConcurrentGenerateEmbeddings(p)
    \/ \E p \in DOMAIN running : ConcurrentLoadModel(p)
    \/ \E p \in DOMAIN running : ConcurrentReturnModel(p)
    \/ \E p \in DOMAIN running : ConcurrentEncode(p)
    \/ \E p \in DOMAIN running : ConcurrentAnalyze(p)

SpecConcurrent == InitConcurrent /\ [][NextConcurrent]_vars

\* What the calls on the EmbeddingService leave alone.
cacheUnchanged ==
    UNCHANGED << op, pc, texts, model_key, threshold, threshold2,
                 similarity_matrix, similar_pairs, similar_pairs2, statistics,
                 plagiarized_pairs, metadata, calls, detectVars, running >>

\* embedding_service._load_model(key), as health_check calls it.
LoadModelCall ==
    /\ op = "EmbeddingService"
    /\ Len(history) < MaxHistory
    /\ \E key \in CacheKeys, constructed \in BOOLEAN :
          LET r == _load_model(_models, key, constructed)
          IN  /\ _models' = r.cache
              /\ exc' = r.exc
              /\ history' = Append(history,
                     Entry("_load_model", key, r.loading, r.exc, r.cache))
    /\ embeddings' = embeddings
    /\ cacheUnchanged

\* embedding_service.generate_embeddings(docs, key), a whole call.
GenerateEmbeddingsCall ==
    /\ op = "EmbeddingService"
    /\ Len(history) < MaxHistory
    /\ \E docs \in SeqsUpTo({ << "a" >> }, 1), key \in CacheKeys,
          constructed \in BOOLEAN :
          IF docs = << >>
          THEN /\ exc' = NoTextsError
               /\ UNCHANGED << _models, embeddings >>
               /\ history' = Append(history,
                      Entry("generate_embeddings", key, FALSE, NoTextsError,
                            _models))
          ELSE IF key \notin get_available_models
          THEN /\ exc' = InvalidModelKeyError
               /\ UNCHANGED << _models, embeddings >>
               /\ history' = Append(history,
                      Entry("generate_embeddings", key, FALSE,
                            InvalidModelKeyError, _models))
          ELSE LET r == _load_model(_models, key, constructed)
               IN  /\ _models' = r.cache
                   /\ IF r.exc # NoError
                      THEN /\ exc' = r.exc
                           /\ embeddings' = embeddings
                      ELSE \/ /\ \E f \in [Docs -> UnitVectors] :
                                    embeddings' =
                                        [k \in 1..Len(docs) |-> f[docs[k]]]
                              /\ exc' = NoError
                           \/ /\ embeddings' = embeddings
                              /\ exc' = EncodeError
                   /\ history' = Append(history,
                          Entry("generate_embeddings", key, r.loading, exc',
                                r.cache))
    /\ cacheUnchanged

\* embedding_service.unload_model(key)
UnloadModel ==
    /\ op = "EmbeddingService"
    /\ Len(history) < MaxHistory
    /\ \E key \in CacheKeys :
          /\ _models' = unload_model(_models, key)
          /\ history' = Append(history,
                 Entry("unload_model", key, FALSE, NoError, _models'))
    /\ exc' = NoError
    /\ embeddings' = embeddings
    /\ cacheUnchanged

\* embedding_service.clear_all_models()
ClearAllModels ==
    /\ op = "EmbeddingService"
    /\ Len(history) < MaxHistory
    /\ _models' = clear_all_models(_models)
    /\ history' = Append(history,
           Entry("clear_all_models", "", FALSE, NoError, _models'))
    /\ exc' = NoError
    /\ embeddings' = embeddings
    /\ cacheUnchanged

\* Calls on one EmbeddingService, one after the other.
NextCache ==
    \/ LoadModelCall
    \/ GenerateEmbeddingsCall
    \/ UnloadModel
    \/ ClearAllModels

SpecCache == InitCache /\ [][NextCache]_vars

\* _create_similarity_pairs(similar_pairs_raw, texts), called directly.
CreateSimilarityPairs ==
    /\ pc = "_create_similarity_pairs"
    /\ calls' = Append(calls, "_create_similarity_pairs")
    /\ plagiarized_pairs' =
           Some(_create_similarity_pairs(Get(similar_pairs), texts))
    /\ pc' = "done"
    /\ UNCHANGED << op, texts, model_key, threshold, threshold2, _models,
                    embeddings, similarity_matrix, similar_pairs,
                    similar_pairs2, statistics, metadata, exc >>
    /\ UNCHANGED << detectVars, history, running >>

SpecPreview == InitPreview /\ [][CreateSimilarityPairs]_vars

\* The entry points of DetectionService and POST /compare.
NextDetection ==
    \/ CompareTwoTexts
    \/ GenerateEmbeddings
    \/ LoadModel
    \/ Encode
    \/ CalculateSimilarityMatrix
    \/ FindSimilarPairs
    \/ AssembleResult
    \/ SimilarityReport
    \/ CompareRespond
    \/ DetectStrictPairs
    \/ DetectModeratePairs
    \/ DetectReturn

SpecDetection == InitDetection /\ [][NextDetection]_vars

\* ================================================================= claims

Called(f) == \E k \in 1..Len(calls) : calls[k] = f

\* The number of unordered pairs of n documents.
PairCount(n) == (n * (n - 1)) \div 2

\* The (index, index) of the triples of a list of pairs.
IndexPairs(pairs) == { <<pairs[k][1], pairs[k][2]>> : k \in 1..Len(pairs) }

\* The matrix of the scenario: [[1, 0.9, 0.2], [0.9, 1, 0.3], [0.2, 0.3, 1]].
ScenarioMatrix ==
    << << One, Lit(9, 10), Lit(1, 5) >>,
       << Lit(9, 10), One, Lit(3, 10) >>,
       << Lit(1, 5), Lit(3, 10), One >> >>

\* C1: once calculate_similarity_matrix has been called on N >= 1 vectors,
\* whatever they are, the matrix it returned is N x N, equal to its transpose,
\* and exactly 1.0 on the diagonal.
C1_SymmetricUnitDiagonal ==
    (Called("calculate_similarity_matrix") /\ Len(embeddings) >= 1) =>
        /\ IsSome(similarity_matrix)
        /\ LET m == Get(similarity_matrix)
               n == Len(embeddings)
           IN  /\ Len(m) = n
               /\ \A i \in 1..n :
                    /\ Len(m[i]) = n
                    /\ m[i][i] = One
                    /\ \A j \in 1..n : m[i][j] = m[j][i]

\* C1 witness: a direct call on three vectors, one of them of squared length
\* 2.0, has returned.
C1_Witness ==
    /\ op = "calculate_similarity_matrix"
    /\ pc = "done"
    /\ Len(embeddings) = 3
    /\ embeddings[2] = << One, One >>
    /\ Dot(embeddings[2], embeddings[2]) = 2 * One
    /\ IsSome(similarity_matrix)
    /\ Get(similarity_matrix)[2][2] = One

\* C2: every entry off the diagonal of the matrix returned is the dot product
\* of the two vectors, the sum of the products of their components, neither
\* vector renormalized.
C2_EntriesAreDotProducts ==
    (Called("calculate_similarity_matrix") /\ IsSome(similarity_matrix)) =>
        \A i, j \in 1..Len(embeddings) :
            i # j =>
                Get(similarity_matrix)[i][j] =
                    FAdd(FMul(embeddings[i][1], embeddings[j][1]),
                         FMul(embeddings[i][2], embeddings[j][2]))

\* C2 witness: for (1, 1) and (1, 0), not both of unit length, the entry
\* returned is the dot product 1.0, which is not the cosine.
C2_Witness ==
    /\ op = "calculate_similarity_matrix"
    /\ pc = "done"
    /\ embeddings = << << One, One >>, << One, 0 >> >>
    /\ Get(similarity_matrix)[1][2] = One
    /\ Cosine(embeddings[1], embeddings[2]) < One

\* C3: find_similar_pairs with a threshold in [0, 1] returns (a, b, s) exactly
\* for the a < b with s = matrix[a, b] >= threshold, each pair of indexes once;
\* on the matrix of the scenario with threshold 0.7, exactly (0, 1, 0.9).
C3_PairsExactlyThoseAtOrAboveThreshold ==
    IsSome(similar_pairs) =>
        LET ps == Get(similar_pairs)
            m  == Get(similarity_matrix)
        IN  /\ \A k \in 1..Len(ps) :
                 /\ <<ps[k][1], ps[k][2]>> \in UpperIndexes(Len(m))
                 /\ ps[k][3] = At(m, ps[k][1], ps[k][2])
                 /\ ps[k][3] >= threshold
            /\ \A p \in UpperIndexes(Len(m)) :
                 At(m, p[1], p[2]) >= threshold =>
                     \E k \in 1..Len(ps) :
                         ps[k] = <<p[1], p[2], At(m, p[1], p[2])>>
            /\ \A k, l \in 1..Len(ps) :
                 k # l => {ps[k][1], ps[k][2]} # {ps[l][1], ps[l][2]}
            /\ (m = ScenarioMatrix /\ threshold = Lit(7, 10)) =>
                 ps = << <<0, 1, Lit(9, 10)>> >>

\* C3 witness: on the matrix of the scenario with threshold 0.9 the pair of
\* score exactly 0.9 has been returned.
C3_Witness ==
    /\ op = "find_similar_pairs"
    /\ similarity_matrix = Some(ScenarioMatrix)
    /\ threshold = Lit(9, 10)
    /\ similar_pairs = Some(<< <<0, 1, Lit(9, 10)>> >>)

\* C4: the pairs returned are in descending order of score, pairs of equal
\* score in ascending order of (index, index); a second call with the same
\* matrix and threshold returns the same sequence.
C4_DescendingTiesByIndex ==
    /\ IsSome(similar_pairs) =>
         LET ps == Get(similar_pairs)
         IN  \A k, l \in 1..Len(ps) :
                 k < l =>
                     \/ ps[k][3] > ps[l][3]
                     \/ /\ ps[k][3] = ps[l][3]
                        /\ \/ ps[k][1] < ps[l][1]
                           \/ ps[k][1] = ps[l][1] /\ ps[k][2] < ps[l][2]
    /\ (IsSome(similar_pairs) /\ IsSome(similar_pairs2)
            /\ threshold2 = threshold) =>
         similar_pairs2 = similar_pairs

\* C4 witness: three pairs of one score have been returned, twice, in index
\* order.
C4_Witness ==
    /\ op = "find_similar_pairs"
    /\ pc = "done"
    /\ threshold = Lit(7, 10)
    /\ threshold2 = threshold
    /\ similar_pairs = Some(<< <<0, 1, Lit(9, 10)>>, <<0, 2, Lit(9, 10)>>,
                               <<1, 2, Lit(9, 10)>> >>)
    /\ similar_pairs2 = similar_pairs

\* C5: of two calls on one matrix, the one with the lower threshold returns
\* every pair of indexes the other returns.
C5_ThresholdMonotone ==
    (IsSome(similar_pairs) /\ IsSome(similar_pairs2)) =>
        /\ threshold < threshold2 =>
             IndexPairs(Get(similar_pairs2)) \subseteq
                 IndexPairs(Get(similar_pairs))
        /\ threshold2 < threshold =>
             IndexPairs(Get(similar_pairs)) \subseteq
                 IndexPairs(Get(similar_pairs2))

\* C5 witness: thresholds 0.0 < 0.9 on one 3 x 3 matrix, the first call returned
\* all three pairs, the second only one of them.
C5_Witness ==
    /\ op = "find_similar_pairs"
    /\ pc = "done"
    /\ threshold = 0 /\ threshold2 = Lit(9, 10)
    /\ IsSome(similar_pairs) /\ IsSome(similar_pairs2)
    /\ Len(Get(similar_pairs2)) = 1
    /\ Len(Get(similar_pairs)) = 3

\* C6 as stated: for any N x N matrix, find_similar_pairs with threshold 0.0
\* returns N * (N - 1) / 2 pairs.
C6_AllPairsAtZero ==
    (IsSome(similar_pairs) /\ threshold = 0) =>
        Len(Get(similar_pairs)) = PairCount(Len(Get(similarity_matrix)))

\* C6 amended: for any N x N matrix with no negative entry above the diagonal,
\* find_similar_pairs with threshold 0.0 returns N * (N - 1) / 2 pairs.
C6_AllPairsAtZeroNonNegative ==
    (IsSome(similar_pairs) /\ threshold = 0
        /\ \A p \in UpperIndexes(Len(Get(similarity_matrix))) :
               At(Get(similarity_matrix), p[1], p[2]) >= 0) =>
        Len(Get(similar_pairs)) = PairCount(Len(Get(similarity_matrix)))

\* C6 witness: a direct call with threshold 0.0 on a 3 x 3 matrix without
\* negative entries has returned 3 pairs.
C6_Witness ==
    /\ op = "find_similar_pairs"
    /\ threshold = 0
    /\ IsSome(similar_pairs)
    /\ Len(Get(similarity_matrix)) = 3
    /\ \A p \in UpperIndexes(3) : At(Get(similarity_matrix), p[1], p[2]) >= 0
    /\ Len(Get(similar_pairs)) = 3

\* C7: the statistics returned for an N x N matrix are those of the entries
\* above the diagonal: their number N * (N - 1) / 2, the smallest, the largest,
\* and a mean between the two; for N <= 1 every field is zero.
C7_StatisticsOverUpperTriangle ==
    (Called("get_similarity_statistics") /\ IsSome(statistics)) =>
        LET st == Get(statistics)
            m  == Get(similarity_matrix)
            up == { At(m, p[1], p[2]) : p \in UpperIndexes(Len(m)) }
        IN  /\ st.total_pairs = PairCount(Len(m))
            /\ Len(m) >= 2 =>
                 /\ st.min_similarity \in up
                 /\ \A x \in up : st.min_similarity <= x
                 /\ st.max_similarity \in up
                 /\ \A x \in up : x <= st.max_similarity
                 /\ st.min_similarity <= st.mean_similarity
                 /\ st.mean_similarity <= st.max_similarity
            /\ Len(m) <= 1 =>
                 st = [total_pairs |-> 0, mean_similarity |-> 0,
                       max_similarity |-> 0, min_similarity |-> 0,
                       std_similarity |-> 0]

\* C8: find_similar_pairs with a threshold below 0.0 or above 1.0 raises the
\* threshold error and returns nothing; with any threshold from 0.0 to 1.0,
\* both included, it returns.  The same for the second call.
C8_ThresholdOutOfRangeRejected ==
    /\ Called("find_similar_pairs") =>
         IF threshold < 0 \/ threshold > One
         THEN exc = ThresholdError /\ similar_pairs = None
         ELSE IsSome(similar_pairs)
    /\ (op = "find_similar_pairs" /\ pc = "done" /\ IsSome(similar_pairs)) =>
         IF threshold2 < 0 \/ threshold2 > One
         THEN exc = ThresholdError /\ similar_pairs2 = None
         ELSE exc = NoError /\ IsSome(similar_pairs2)

\* C8 witness: a call with threshold 1.0 has returned, and a second one with a
\* threshold below 0.0 has raised.
C8_Witness ==
    /\ op = "find_similar_pairs"
    /\ pc = "done"
    /\ threshold = One
    /\ IsSome(similar_pairs)
    /\ threshold2 < 0
    /\ similar_pairs2 = None
    /\ exc = ThresholdError

\* C9: calculate_similarity_matrix called with no vector raises the
\* empty-embeddings error and returns no matrix; called with one or more it
\* does not raise and returns one.
C9_EmptyEmbeddingsRejected ==
    (op = "calculate_similarity_matrix" /\ pc = "done") =>
        IF Len(embeddings) = 0
        THEN exc = EmptyEmbeddingsError /\ similarity_matrix = None
        ELSE exc = NoError /\ IsSome(similarity_matrix)

\* C9 witness: the call with no vector has raised.
C9_Witness ==
    /\ op = "calculate_similarity_matrix"
    /\ pc = "done"
    /\ embeddings = << >>
    /\ exc = EmptyEmbeddingsError

\* C10: in analyze_texts with no text, no model is ever loaded, encode is never
\* called and no matrix is computed, and the call ends with the no-texts
\* ValueError.
C10_EmptyTextsFailBeforeEmbedding ==
    (op = "analyze_texts" /\ texts = << >>) =>
        /\ ~Called("SentenceTransformer")
        /\ ~Called("encode")
        /\ ~Called("calculate_similarity_matrix")
        /\ embeddings = << >>
        /\ similarity_matrix = None
        /\ pc \in {"generate_embeddings", "done"}
        /\ pc = "done" => exc = NoTextsError

\* C10 witness: analyze_texts with no text, a known model key and no model
\* loaded has ended with the ValueError.
C10_Witness ==
    /\ op = "analyze_texts"
    /\ texts = << >>
    /\ model_key = "miniLM"
    /\ _models = NoCache
    /\ pc = "done"
    /\ exc = NoTextsError

\* C11: in analyze_texts with one or more texts and a model key that is not
\* one of the available ones, no model is ever loaded and none is stored under
\* that key (the default model neither), encode is never called, no matrix,
\* pair or statistic is computed, and the call ends with the invalid-model-key
\* ValueError of generate_embeddings.
C11_UnknownModelKeyRejected ==
    (op = "analyze_texts" /\ texts # << >>
        /\ model_key \notin get_available_models) =>
        /\ ~Called("SentenceTransformer")
        /\ model_key \notin DOMAIN _models
        /\ ~Called("encode")
        /\ ~Called("calculate_similarity_matrix")
        /\ ~Called("find_similar_pairs")
        /\ ~Called("get_similarity_statistics")
        /\ embeddings = << >>
        /\ similarity_matrix = None
        /\ pc \in {"generate_embeddings", "done"}
        /\ pc = "done" =>
             /\ exc = InvalidModelKeyError
             /\ calls = << "generate_embeddings" >>

\* C11 witness: analyze_texts with two texts and the key "unknown", no model
\* loaded, has ended with the ValueError and still no model is loaded.
C11_Witness ==
    /\ op = "analyze_texts"
    /\ Len(texts) = 2
    /\ model_key = "unknown"
    /\ pc = "done"
    /\ exc = InvalidModelKeyError
    /\ _models = NoCache

\* How many times f has been called.
Count(f) == Cardinality({ k \in 1..Len(calls) : calls[k] = f })

\* The exceptions of generate_embeddings.
EmbeddingErrors ==
    { NoTextsError, InvalidModelKeyError, LoadModelError, EncodeError }

\* C12: in analyze_texts, detect_potential_plagiarism and the comparison of two
\* texts, generate_embeddings is called at most once, and when it has raised,
\* the call has ended with the exception the embedding service raised, nothing
\* was called after it, and no matrix, pair, statistic or result exists.
C12_EmbeddingFailurePropagates ==
    /\ Count("generate_embeddings") <= 1
    /\ exc \in EmbeddingErrors =>
         /\ pc \in {"done", "responded"}
         /\ exc = CASE calls[Len(calls)] = "encode" -> EncodeError
                   [] calls[Len(calls)] = "SentenceTransformer" ->
                          LoadModelError
                   [] calls[Len(calls)] = "generate_embeddings" ->
                          IF texts = << >> THEN NoTextsError
                          ELSE InvalidModelKeyError
                   [] OTHER -> NoError
         /\ ~Called("calculate_similarity_matrix")
         /\ ~Called("find_similar_pairs")
         /\ ~Called("_create_similarity_pairs")
         /\ ~Called("get_similarity_statistics")
         /\ embeddings = << >>
         /\ similarity_matrix = None
         /\ similar_pairs = None
         /\ plagiarized_pairs = None
         /\ statistics = None
         /\ metadata = None
         /\ strict_pairs = None
         /\ moderate_pairs = None
         /\ result = None

\* C12 witness: detect_potential_plagiarism has ended with the exception of
\* encode, raised after the model was loaded.
C12_Witness ==
    /\ op = "detect_potential_plagiarism"
    /\ pc = "done"
    /\ exc = EncodeError
    /\ calls = << "generate_embeddings", "SentenceTransformer", "encode" >>
    /\ result = None

\* C13: a detect_potential_plagiarism call that has returned has called
\* generate_embeddings once, calculate_similarity_matrix once and
\* find_similar_pairs twice, once with strict_threshold and once with
\* moderate_threshold, both on the one matrix.
C13_DetectFindsPairsTwice ==
    (op = "detect_potential_plagiarism" /\ pc = "done" /\ exc = NoError) =>
        /\ Count("generate_embeddings") = 1
        /\ Count("calculate_similarity_matrix") = 1
        /\ Count("find_similar_pairs") = 2
        /\ strict_pairs =
               find_similar_pairs(Get(similarity_matrix),
                                  strict_threshold).value
        /\ moderate_pairs =
               find_similar_pairs(Get(similarity_matrix), threshold).value

\* C14: the report of get_text_similarity_report has similarity_score =
\* matrix[0, 1] of the 2 x 2 matrix, is_highly_similar = (score >= 0.85) and
\* is_moderately_similar = (score >= 0.7); so highly similar implies
\* moderately similar, and two identical texts have both flags true.
C14_ReportFlags ==
    (op = "compare_two_texts" /\ IsSome(result)) =>
        LET report == Get(result)
            m      == Get(similarity_matrix)
        IN  /\ Len(m) = 2 /\ Len(m[1]) = 2 /\ Len(m[2]) = 2
            /\ report.similarity_score = m[1][2]
            /\ report.is_highly_similar = (m[1][2] >= Lit(85, 100))
            /\ report.is_moderately_similar = (m[1][2] >= Lit(7, 10))
            /\ report.is_highly_similar => report.is_moderately_similar
            /\ texts[1] = texts[2] =>
                 report.is_highly_similar /\ report.is_moderately_similar

\* C14 witness: a report with a score of exactly 0.85 and both flags true.
C14_Witness ==
    /\ op = "compare_two_texts"
    /\ IsSome(result)
    /\ Get(result).similarity_score = Lit(85, 100)
    /\ Get(result).is_highly_similar
    /\ Get(result).is_moderately_similar

\* Blank after trimming: text.strip() is empty.
IsBlank(text) == Strip(text) = << >>

ClaimedCut(text) ==
    LET t == Strip(text)
    IN  IF Len(t) <= PreviewLength THEN t
        ELSE LET first == SubSeq(t, 1, PreviewLength)
                 p     == RFindSpace(first)
             IN  IF 10 * p > 8 * PreviewLength
                 THEN SubSeq(first, 1, p) ELSE first

\* C17: the preview of each text of a pair has at most 100 characters; it is
\* the trimmed text when that has at most 100 characters, and else the text
\* cut (with the ellipsis or without) at the last space of its first 100
\* characters when that space is at a position above 80, at 100 characters
\* otherwise.
C17_PreviewWithinBudget ==
    (op = "_create_similarity_pairs" /\ IsSome(plagiarized_pairs)) =>
        LET pair == Get(plagiarized_pairs)[1]
            Ok(text, preview) ==
                /\ Len(preview) <= PreviewLength
                /\ \/ preview = ClaimedCut(text)
                   \/ /\ Len(Strip(text)) > PreviewLength
                      /\ preview = ClaimedCut(text) \o Ellipsis
        IN  /\ Ok(texts[1], pair.text_1_preview)
            /\ Ok(texts[2], pair.text_2_preview)

\* Outside [0, 1].
OutOfRange(t) == t < 0 \/ t > One

\* C18: in analyze_texts with a threshold outside [0, 1], and in
\* detect_potential_plagiarism with strict_threshold or moderate_threshold
\* outside [0, 1], the texts and the model key being valid, encode is never
\* called and no matrix is computed, and the call ends with the threshold
\* ValueError and without matrix, pairs, metadata or result.
C18_ThresholdFailsFast ==
    (/\ \/ op = "analyze_texts" /\ OutOfRange(threshold)
        \/ /\ op = "detect_potential_plagiarism"
           /\ OutOfRange(threshold) \/ OutOfRange(strict_threshold)
     /\ texts # << >>
     /\ model_key \in get_available_models) =>
        /\ ~Called("encode")
        /\ ~Called("calculate_similarity_matrix")
        /\ embeddings = << >>
        /\ similarity_matrix = None
        /\ similar_pairs = None
        /\ plagiarized_pairs = None
        /\ metadata = None
        /\ result = None
        /\ pc = "done" => exc = ThresholdError

\* The keys of the models held before the i-th call on the EmbeddingService.
LoadedBefore(i) == IF i = 1 THEN {} ELSE history[i - 1].loaded

\* A load of key has succeeded and no unload_model(key) or clear_all_models
\* has been called since.
LoadedSince(key) ==
    \E i \in 1..Len(history) :
        /\ history[i].key = key
        /\ history[i].loading
        /\ history[i].exc # LoadModelError
        /\ \A j \in (i + 1)..Len(history) :
             /\ ~(history[j].call = "unload_model" /\ history[j].key = key)
             /\ history[j].call # "clear_all_models"

\* C19: after any calls of _load_model, generate_embeddings, unload_model and
\* clear_all_models on one EmbeddingService, is_model_loaded(key) is true
\* exactly when a load of key has succeeded since the last unload_model(key)
\* or clear_all_models; a call whose load failed ended with the models it
\* started with; and no call loaded a model for a key that was held.
C19_LoadedIffLoadedSince ==
    op = "EmbeddingService" =>
        /\ \A key \in CacheKeys :
             is_model_loaded(_models, key) <=> LoadedSince(key)
        /\ \A i \in 1..Len(history) :
             /\ history[i].exc = LoadModelError =>
                  history[i].loaded = LoadedBefore(i)
             /\ history[i].loading => history[i].key \notin LoadedBefore(i)

\* C19 witness: the default model was loaded, a second _load_model of it did
\* not load, a load of another model failed, and only the default one is held.
C19_Witness ==
    /\ op = "EmbeddingService"
    /\ Len(history) = 3
    /\ history[1].key = DEFAULT_MODEL /\ history[1].loading
    /\ history[1].exc = NoError
    /\ history[2].call = "_load_model" /\ history[2].key = DEFAULT_MODEL
    /\ ~history[2].loading
    /\ history[3].key = "mpnet" /\ history[3].exc = LoadModelError
    /\ is_model_loaded(_models, DEFAULT_MODEL)
    /\ ~is_model_loaded(_models, "mpnet")

\* C16: whatever the interleaving of the steps of concurrent analyze_texts
\* calls, each call holds the model of its own key and one vector for each of
\* its own texts, and a call that has returned has the matrix of its own
\* embeddings, the pairs of that matrix at its own threshold and the
\* statistics of that matrix, as when it runs alone; the models held are those
\* of their keys, and nothing else on the services has changed.
C16_ConcurrentCallsIndependent ==
    op = "concurrent" =>
        /\ \A k \in DOMAIN _models : _models[k] = get_model_name(k)
        /\ embeddings = << >> /\ similarity_matrix = None
        /\ plagiarized_pairs = None /\ metadata = None
        /\ \A p \in DOMAIN running :
             LET call == running[p]
             IN  /\ IsSome(call.model) =>
                      Get(call.model) = get_model_name(call.model_key)
                 /\ call.embeddings # << >> =>
                      /\ Len(call.embeddings) = Len(call.texts)
                      /\ \A i, j \in 1..Len(call.texts) :
                           call.texts[i] = call.texts[j] =>
                               call.embeddings[i] = call.embeddings[j]
                 /\ (call.pc = "done" /\ call.exc = NoError) =>
                      call = Analyzed([call EXCEPT
                                           !.similarity_matrix = None,
                                           !.plagiarized_pairs = None,
                                           !.metadata = None],
                                      call.embeddings)

\* C16 witness: two calls with one model key and different texts have both
\* loaded the model, neither having found it, and both have returned.
C16_Witness ==
    /\ op = "concurrent"
    /\ running[1].model_key = running[2].model_key
    /\ running[1].texts # running[2].texts
    /\ Count("SentenceTransformer") = 2
    /\ running[1].pc = "done" /\ running[1].exc = NoError
    /\ running[2].pc = "done" /\ running[2].exc = NoError
    /\ IsSome(running[1].plagiarized_pairs)
    /\ IsSome(running[2].plagiarized_pairs)

====
